---- MODULE Spec2Model ----
(***************************************************************************)
(* Model of the hd-wallet synchronization client (src/lib/bitcore.js) and  *)
(* of the impact derivation engine (src/unnamed/part_000).                 *)
(*                                                                         *)
(* Optional values (null / undefined in the source) are sequences of       *)
(* length at most one: None is null, Some(v) is the value v.               *)
(***************************************************************************)
EXTENDS Integers, Sequences, FiniteSets, TLC

VARIABLES
    \* ---- BitcoreBlockchain (bitcore.js:99-224)
    transactions,   \* this.transactions: id -> interned Transaction
    built,          \* per id, how many times a WireFormat adapter ran for it
    firstTx,        \* per id, the Transaction returned by its first observation
    lastObs,        \* what the last observation handler returned, and the wire
                    \* data it was given
    pendingInsight, \* ids of lookupTransaction fetches in flight
    \* ---- lookupAllAddressHistories / lookupTransactions (bitcore.js:138-148, 327-385)
    history,        \* the backend's address history, a sequence of tx ids
    revisions,      \* how many times the backend changed its history
    args,           \* arguments of the lookupTransactions call
    pc,             \* "idle", "waiting" (request in flight), "done", "failed"
    previous,       \* generator state {from, to, totalCount} of Stream.generate
    requests,       \* messages passed to socket.send, in order
    responses,      \* totalCount of each backend answer, in order
    pages,          \* pages emitted by the stream, in order
    acc,            \* accumulator of the reduce in lookupTransactions
    second,         \* a second lookupTransactionsStream call running beside the
                    \* first: its pc, generator state and requests
    \* ---- subscriptions and feeds (bitcore.js:108-123, 450-476)
    addresses,      \* this.addresses: the watched addresses
    emitted,        \* 'subscribe' messages emitted on the socket, in order
    passed,         \* every address passed to subscribe so far
    lastCall,       \* the last subscribe call: its argument, and the watched set
                    \* and the number of messages emitted before it
    callbacks,      \* listeners the socket holds, by event key
    disposed,       \* feeds whose consumer unsubscribed
    late,           \* feeds whose listener was called after the unsubscription
    \* ---- deriveImpacts (part_000:28-50)
    txmap,          \* the TransactionMap: TransactionInfos of the wallet
    derived,        \* whether deriveImpacts ran on the current txmap
    impacts         \* the ledger deriveImpacts returned

pagingVars ==
    <<history, revisions, args, pc, previous, requests, responses, pages, acc, second>>
cacheVars == <<transactions, built, firstTx>>
clientVars == <<lastObs, pendingInsight>>
socketVars == <<addresses, emitted, passed, lastCall, callbacks, disposed, late>>
impactVars == <<txmap, derived, impacts>>
vars == <<cacheVars, clientVars, pagingVars, socketVars, impactVars>>

(***************************************************************************)
(* Bounds of the model.                                                    *)
(***************************************************************************)
MaxTxId == 2
MaxHistory == 3
MaxPageLength == 2
MaxRevisions == 1
MaxPageItems == 2
MaxCalls == 2
MaxSubscribeLen == 2
MaxTxs == 2

TxIds == 1..MaxTxId
PageLengths == 1..MaxPageLength
WalletAddresses == {"a1", "a2"}
AddressArgs == {<<"a1">>, <<"a1", "a2">>}
StartArgs == {<<>>, <<9>>}
EndArgs == {<<>>, <<1>>}
WireHeights == {-1, 7}

None == <<>>
Some(v) == <<v>>

Min(a, b) == IF a < b THEN a ELSE b

RECURSIVE SeqsUpTo(_, _)
SeqsUpTo(S, n) ==
    IF n = 0 THEN {<<>>}
    ELSE LET shorter == SeqsUpTo(S, n - 1)
         IN shorter \cup {Append(s, x) : s \in {t \in shorter : Len(t) = n - 1}, x \in S}

Reverse(s) == [i \in 1..Len(s) |-> s[Len(s) + 1 - i]]

(***************************************************************************)
(* Backend wire data. A transaction is determined by its hash, so the two  *)
(* wire descriptors of an id are functions of the id.                      *)
(***************************************************************************)
\* A 32-bit quantity is its two 16-bit halves; x >>> 0 brings each half into
\* range.
Half == 65536
Word(hi, lo) == [hi |-> hi, lo |-> lo]
ToUint32(w) == [hi |-> w.hi % Half, lo |-> w.lo % Half]

HexOfId(id) == <<id, 16 + id, 255>>

BcTx(id) ==
    [hash |-> id, version |-> 1, nLockTime |-> 0,
     inputs |-> <<[script |-> <<71, id>>, prevTxId |-> HexOfId(id),
                   outputIndex |-> Word(0, id - 1),
                   sequenceNumber |-> Word(Half - 1, Half - 1)]>>,
     outputs |-> <<[script |-> <<118, id>>, satoshis |-> 5000 * id]>>]

\* BcHistory: one item of a getAddressHistory response.
BcHistoryItem(id, h) ==
    [tx |-> BcTx(id), height |-> h,
     timestamp |-> (IF h > 0 THEN Some(1400 + h) ELSE None),
     addresses |-> <<"a1">>]

\* The decimal string of an insight output value: whole bitcoins and the
\* digits after the decimal point.
InsightValue(id) == [whole |-> 0, frac |-> <<0, 0, 0, 0, 5 * id>>]

InsightTx(id, h) ==
    [txid |-> id, version |-> 1, locktime |-> 0,
     vin |-> <<[txid |-> HexOfId(id), vout |-> Word(0, id - 1),
                scriptSig |-> [hex |-> <<71, id>>],
                sequence |-> Word(Half - 1, Half - 1)]>>,
     vout |-> <<[value |-> InsightValue(id), scriptPubKey |-> [hex |-> <<118, id>>]]>>,
     blockheight |-> h, time |-> 1400 + h]

ParsedAddresses ==
    {[hash |-> <<0, 0>>, network |-> "livenet", type |-> "pubkeyhash"],
     [hash |-> <<0, 1>>, network |-> "testnet", type |-> "scripthash"],
     [hash |-> <<0, 0>>, network |-> "regtest", type |-> "pubkeyhash"],
     [hash |-> <<0, 0>>, network |-> "livenet", type |-> "witness"]}

OptHeights == {None, Some(0), Some(7)}
OptTimestamps == {None, Some(1400)}

BcNotifications ==
    {[address |-> a, rejected |-> rej, tx |-> BcTx(id), height |-> h, timestamp |-> t] :
        a \in ParsedAddresses, rej \in BOOLEAN, id \in TxIds,
        h \in OptHeights, t \in OptTimestamps}

(***************************************************************************)
(* WireFormat adapters. ref is the identity of the constructed object: the  *)
(* id it was built for and the number of the build.                        *)
(***************************************************************************)
EMPTY_BUFFER == <<>>

\* Math.round(parseFloat(value) * 1e8)
RECURSIVE FracToSatoshis(_, _)
FracToSatoshis(frac, unit) ==
    IF frac = <<>> THEN 0
    ELSE Head(frac) * unit + FracToSatoshis(Tail(frac), unit \div 10)

ParseValue(v) == v.whole * 100000000 + FracToSatoshis(v.frac, 10000000)

insightToTransaction(r, ref) ==
    [ref |-> ref, version |-> r.version, locktime |-> r.locktime,
     ins |-> [k \in 1..Len(r.vin) |->
                [script |-> r.vin[k].scriptSig.hex,
                 hash |-> Reverse(r.vin[k].txid),
                 index |-> ToUint32(r.vin[k].vout),
                 sequence |-> ToUint32(r.vin[k].sequence)]],
     outs |-> [k \in 1..Len(r.vout) |->
                [script |-> r.vout[k].scriptPubKey.hex,
                 value |-> ParseValue(r.vout[k].value)]]]

bitcoreToTransaction(r, neutered, ref) ==
    [ref |-> ref, version |-> r.version, locktime |-> r.nLockTime,
     ins |-> [k \in 1..Len(r.inputs) |->
                [script |-> (IF neutered THEN EMPTY_BUFFER ELSE r.inputs[k].script),
                 hash |-> Reverse(r.inputs[k].prevTxId),
                 index |-> ToUint32(r.inputs[k].outputIndex),
                 sequence |-> ToUint32(r.inputs[k].sequenceNumber)]],
     outs |-> [k \in 1..Len(r.outputs) |->
                [script |-> r.outputs[k].script,
                 value |-> r.outputs[k].satoshis]]]

\* A thrown TypeError is the result [ok |-> FALSE].
bitcoreToNetwork(s) ==
    CASE s = "livenet" -> [ok |-> TRUE, pubKeyHash |-> 0, scriptHash |-> 5]
      [] s = "testnet" -> [ok |-> TRUE, pubKeyHash |-> 111, scriptHash |-> 196]
      [] OTHER -> [ok |-> FALSE, error |-> "Unknown bitcore network"]

bitcoreToAddressVersion(n, s) ==
    CASE s = "pubkeyhash" -> [ok |-> TRUE, version |-> n.pubKeyHash]
      [] s = "scripthash" -> [ok |-> TRUE, version |-> n.scriptHash]
      [] OTHER -> [ok |-> FALSE, error |-> "Unknown bitcore address version"]

\* baddress.toBase58Check(h, v) is the pair of its arguments.
bitcoreToAddress(r) ==
    LET n == bitcoreToNetwork(r.network)
    IN IF ~n.ok THEN n
       ELSE LET v == bitcoreToAddressVersion(n, r.type)
            IN IF ~v.ok THEN v
               ELSE [ok |-> TRUE, address |-> [version |-> v.version, hash |-> r.hash]]

(***************************************************************************)
(* The Transaction Cache and the conversions of BitcoreBlockchain. The     *)
(* client state c is [transactions, built, firstTx]; a conversion          *)
(* yields the new client state and its return value.                       *)
(***************************************************************************)
Client == [transactions |-> transactions, built |-> built, firstTx |-> firstTx]

\* Identity of the next Transaction object constructed for id.
NewRef(c, id) == <<id, c.built[id] + 1>>

\* Mutant of Intern: the adapter runs and the entry is stored on every
\* observation, as if the lookup always missed.
InternAlwaysBuild(c, id, fresh) ==
    [c |-> [c EXCEPT !.transactions = (id :> fresh) @@ @,
                     !.built = [@ EXCEPT ![id] = @ + 1]],
     tx |-> fresh]

\* Mutant of Intern: a miss replaces the whole map by the new entry.
InternSingleEntry(c, id, fresh) ==
    IF id \in DOMAIN c.transactions
    THEN [c |-> c, tx |-> c.transactions[id]]
    ELSE [c |-> [c EXCEPT !.transactions = (id :> fresh),
                               !.built = [@ EXCEPT ![id] = @ + 1]],
          tx |-> fresh]

\* The lookup-or-build of toInfo and insightToInfo (lines 197-201, 212-216):
\* fresh is the Transaction the adapter would construct.
Intern(c, id, fresh) ==
    IF id \in DOMAIN c.transactions
    THEN [c |-> c, tx |-> c.transactions[id]]
    ELSE [c |-> [c EXCEPT !.transactions = (id :> fresh) @@ @,
                               !.built = [@ EXCEPT ![id] = @ + 1]],
          tx |-> fresh]

\* Ghost: remember the Transaction the first observation of an id returned.
Observed(c, id, tx) ==
    IF id \in DOMAIN c.firstTx THEN c
    ELSE [c EXCEPT !.firstTx = (id :> tx) @@ @]

TransactionInfo(tx, id, height, timestamp) ==
    [tx |-> tx, id |-> id, height |-> height, timestamp |-> timestamp]

\* Mutant of toInfo: the wire height and timestamp are passed on as they are.
toInfoRawHeight(c, r) ==
    LET id == r.tx.hash
        got == Intern(c, id, bitcoreToTransaction(r.tx, TRUE, NewRef(c, id)))
    IN [c |-> Observed(got.c, id, got.tx),
        info |-> TransactionInfo(got.tx, id, Some(r.height), r.timestamp)]

toInfo(c, r) ==
    LET id == r.tx.hash
        got == Intern(c, id, bitcoreToTransaction(r.tx, TRUE, NewRef(c, id)))
    IN [c |-> Observed(got.c, id, got.tx),
        info |-> TransactionInfo(got.tx, id,
                    IF r.height > 0 THEN Some(r.height) ELSE None,
                    IF r.height > 0 THEN r.timestamp ELSE None)]

\* Mutant of insightToInfo: the Transaction is built and stored without
\* looking the id up first.
insightToInfoAlwaysBuild(c, r) ==
    LET id == r.txid
        tx == insightToTransaction(r, NewRef(c, id))
        stored == [c EXCEPT !.transactions = (id :> tx) @@ @,
                            !.built = [@ EXCEPT ![id] = @ + 1]]
    IN [c |-> Observed(stored, id, tx),
        info |-> TransactionInfo(tx, id,
                    IF r.blockheight > 0 THEN Some(r.blockheight) ELSE None,
                    IF r.blockheight > 0 THEN Some(r.time) ELSE None)]

insightToInfo(c, r) ==
    LET id == r.txid
        got == Intern(c, id, insightToTransaction(r, NewRef(c, id)))
    IN [c |-> Observed(got.c, id, got.tx),
        info |-> TransactionInfo(got.tx, id,
                    IF r.blockheight > 0 THEN Some(r.blockheight) ELSE None,
                    IF r.blockheight > 0 THEN Some(r.time) ELSE None)]

historyToMatch(c, r) ==
    LET i == toInfo(c, r)
    IN [c |-> i.c,
        match |-> [info |-> i.info, addresses |-> r.addresses, rejected |-> FALSE]]

\* Mutant of notificationToMatch: the rejected flag is not copied.
notificationToMatchNotRejected(c, r) ==
    LET bci == [r EXCEPT !.height = IF r.height # None THEN r.height[1] ELSE -1,
                         !.timestamp = IF r.timestamp # None THEN r.timestamp ELSE None]
        i == toInfo(c, bci)
        a == bitcoreToAddress(r.address)
    IN IF a.ok
       THEN [c |-> i.c, ok |-> TRUE,
             match |-> [info |-> i.info, addresses |-> <<a.address>>,
                        rejected |-> FALSE]]
       ELSE [c |-> i.c, ok |-> FALSE, error |-> a.error]

\* Mutant of notificationToMatch: the address is converted before the
\* transaction is interned, so a failure leaves the cache as it was.
notificationToMatchAddressFirst(c, r) ==
    LET bci == [r EXCEPT !.height = IF r.height # None THEN r.height[1] ELSE -1,
                         !.timestamp = IF r.timestamp # None THEN r.timestamp ELSE None]
        i == toInfo(c, bci)
        a == bitcoreToAddress(r.address)
    IN IF a.ok
       THEN [c |-> i.c, ok |-> TRUE,
             match |-> [info |-> i.info, addresses |-> <<a.address>>,
                        rejected |-> r.rejected]]
       ELSE [c |-> c, ok |-> FALSE, error |-> a.error]

notificationToMatch(c, r) ==
    LET bci == [r EXCEPT !.height = IF r.height # None THEN r.height[1] ELSE -1,
                         !.timestamp = IF r.timestamp # None THEN r.timestamp ELSE None]
        i == toInfo(c, bci)
        a == bitcoreToAddress(r.address)
    IN IF a.ok
       THEN [c |-> i.c, ok |-> TRUE,
             match |-> [info |-> i.info, addresses |-> <<a.address>>,
                        rejected |-> r.rejected]]
       ELSE [c |-> i.c, ok |-> FALSE, error |-> a.error]

\* r.items.map((item) => this.historyToMatch(item)), line 135
RECURSIVE MapItems(_, _)
MapItems(c, items) ==
    IF items = <<>> THEN [c |-> c, matches |-> <<>>]
    ELSE LET h == historyToMatch(c, Head(items))
             rest == MapItems(h.c, Tail(items))
         IN [c |-> rest.c, matches |-> <<h.match>> \o rest.matches]

(***************************************************************************)
(* The socket's listeners. The socket is an event emitter: on(event, fn)   *)
(* appends fn to the listeners of the key event, off(key) called with one  *)
(* argument removes every listener registered under that key. A listener   *)
(* is named after the feed whose update function it is.                    *)
(***************************************************************************)
Feeds == {"errors", "reconnections", "notifications"}
Events == {"error", "reconnect", "address/transaction"}

\* The event each feed observes (constructor, lines 112-114).
EventOf(f) ==
    CASE f = "errors" -> "error"
      [] f = "reconnections" -> "reconnect"
      [] f = "notifications" -> "address/transaction"

Range(s) == {s[k] : k \in 1..Len(s)}

SocketOn(cb, event, fn) == [cb EXCEPT ![event] = Append(@, fn)]
SocketOff(cb, key) == [cb EXCEPT ![key] = <<>>]

\* observeSocket: socket.on(event, update) when the stream is created.
observeSocket(cb, f) == SocketOn(cb, EventOf(f), f)

\* The disposer observeSocket returns: socket.off(update), whose only
\* argument, the listener, is taken by the emitter as the event key.
observeSocketDispose(cb, f) == SocketOff(cb, f)

ConstructorListeners ==
    observeSocket(
        observeSocket(
            observeSocket([k \in Events \cup Feeds |-> <<>>], "errors"),
            "reconnections"),
        "notifications")

ListenerHeld(f) == f \in Range(callbacks[EventOf(f)])

(***************************************************************************)
(* Pagination engine: lookupAllAddressHistories and lookupTransactions.    *)
(***************************************************************************)
\* The message lookupAddressHistories passes to socket.send.
lookupAddressHistories(addrs, from, to, start, end) ==
    [method |-> "getAddressHistory",
     params |-> <<addrs,
                  [from |-> from, to |-> to, start |-> start, end |-> end,
                   queryMempool |-> TRUE]>>]

initial(pageLength) ==
    [from |-> 0, to |-> 0, items |-> <<>>, totalCount |-> pageLength]

\* Mutant of NextWindow: the upper bound is not clipped to the total.
NextWindowUnclipped(prev, pageLength) ==
    [from |-> prev.to, to |-> prev.to + pageLength]

\* Mutant of NextWindow: the window starts where the previous one started.
NextWindowFromStart(prev, pageLength) ==
    [from |-> prev.from, to |-> Min(prev.from + pageLength, prev.totalCount)]

\* The window the generate step computes from the previous state.
NextWindow(prev, pageLength) ==
    [from |-> prev.to, to |-> Min(prev.to + pageLength, prev.totalCount)]

\* Mutant of PageState: the total of the state handed to generate is kept
\* instead of the one just reported.
PageStateStale(result, w) ==
    [items |-> result.items, totalCount |-> previous.totalCount,
     from |-> w.from, to |-> w.to]

\* ({...result, from, to}) of the then-callback.
PageState(result, w) ==
    [items |-> result.items, totalCount |-> result.totalCount,
     from |-> w.from, to |-> w.to]

\* Mutant of Condition: continues while to <= totalCount.
ConditionInclusive(state) == state.to <= state.totalCount

\* ({ to, totalCount }) => to < totalCount
Condition(state) == state.to < state.totalCount

\* Mutant of Concat: the operands are swapped.
ConcatSwapped(prev, current) == current \o prev

\* (previous, current) => previous.concat(current)
Concat(prev, current) == prev \o current

\* Stream.generate: after emitting a state, iterate again while the
\* condition holds, else finish.
StreamGenerateNext(state) == IF Condition(state) THEN "waiting" ELSE "done"

\* Height the backend reports for a transaction of its history.
BackendHeight(id) == IF id = 1 THEN 7 ELSE -1

\* The backend answers [from, to) with the items at those positions of its
\* current history and the history's length.
BackendAnswer(hist, from, to) ==
    [items |-> [k \in 1..(Min(to, Len(hist)) - Min(from, Len(hist))) |->
                    BcHistoryItem(hist[from + k], BackendHeight(hist[from + k]))],
     totalCount |-> Len(hist)]

IdleArgs == [addresses |-> <<>>, start |-> None, end |-> None, pageLength |-> 0]

RequestFor(a, w) ==
    lookupAddressHistories(a.addresses, w.from, w.to, a.start, a.end)

\* lookupTransactions(addresses, start, end): the stream is created and its
\* first request is sent.
lookupTransactions(addrs, start, end, pageLength) ==
    /\ pc = "idle"
    /\ args' = [addresses |-> addrs, start |-> start, end |-> end,
                pageLength |-> pageLength]
    /\ previous' = initial(pageLength)
    /\ requests' = <<RequestFor(args', NextWindow(previous', pageLength))>>
    /\ pc' = "waiting"
    /\ UNCHANGED <<history, revisions, responses, pages, acc, second, cacheVars,
                   clientVars, socketVars, impactVars>>

\* The backend answers the request in flight: the page is emitted, mapped
\* through historyToMatch, folded by reduce, and the next request is sent or
\* the stream finishes.
PageResponse ==
    /\ pc = "waiting"
    /\ LET w == NextWindow(previous, args.pageLength)
           result == BackendAnswer(history, w.from, w.to)
           state == PageState(result, w)
           m == MapItems(Client, state.items)
       IN /\ responses' = Append(responses, result.totalCount)
          /\ pages' = Append(pages, state)
          /\ transactions' = m.c.transactions
          /\ built' = m.c.built
          /\ firstTx' = m.c.firstTx
          /\ acc' = Concat(acc, m.matches)
          /\ previous' = state
          /\ pc' = StreamGenerateNext(state)
          /\ requests' = IF pc' = "waiting"
                         THEN Append(requests,
                                     RequestFor(args, NextWindow(state, args.pageLength)))
                         ELSE requests
    /\ UNCHANGED <<history, revisions, args, second, clientVars, socketVars, impactVars>>

\* Mutant of PageError: the error rejects every request in flight on the
\* socket, those of the second call included.
PageErrorRejectsAll ==
    /\ pc = "waiting"
    /\ pc' = "failed"
    /\ second' = IF second.pc = "waiting" THEN [second EXCEPT !.pc = "failed"] ELSE second
    /\ UNCHANGED <<history, revisions, args, previous, requests, responses, pages, acc,
                   cacheVars, clientVars, socketVars, impactVars>>

\* The backend answers the request in flight with an error: sendToSocket
\* rejects, the then-callback never runs and no further page is requested.
PageError ==
    /\ pc = "waiting"
    /\ pc' = "failed"
    /\ UNCHANGED <<history, revisions, args, previous, requests, responses, pages, acc,
                   second, cacheVars, clientVars, socketVars, impactVars>>

\* The backend's history changes while a request is in flight: a transaction
\* is added or the latest one is dropped.
BackendRevise ==
    /\ pc = "waiting"
    /\ revisions < MaxRevisions
    /\ revisions' = revisions + 1
    /\ \/ /\ Len(history) < MaxHistory
          /\ \E id \in TxIds : history' = Append(history, id)
       \/ /\ Len(history) > 0
          /\ history' = SubSeq(history, 1, Len(history) - 1)
    /\ UNCHANGED <<args, pc, previous, requests, responses, pages, acc, second,
                   cacheVars, clientVars, socketVars, impactVars>>

EmptyCache ==
    /\ transactions = <<>>
    /\ built = [id \in TxIds |-> 0]
    /\ firstTx = <<>>

\* No lookupTransactions call was made.
NoCall ==
    /\ revisions = 0
    /\ args = IdleArgs
    /\ pc = "idle"
    /\ previous = initial(0)
    /\ requests = <<>>
    /\ responses = <<>>
    /\ pages = <<>>
    /\ acc = <<>>
    /\ second = [pc |-> "idle", previous |-> initial(0), requests |-> <<>>]

\* The client as its constructor leaves it.
Constructed ==
    /\ EmptyCache
    /\ lastObs = [kind |-> "none", ok |-> TRUE, matches |-> <<>>, infos |-> <<>>,
                  wire |-> <<>>]
    /\ pendingInsight = {}
    /\ addresses = {}
    /\ emitted = <<>>
    /\ passed = {}
    /\ lastCall = [made |-> FALSE, addrs |-> <<>>, before |-> {}, sent |-> 0]
    /\ callbacks = ConstructorListeners
    /\ disposed = {}
    /\ late = {}

\* deriveImpacts was not called.
NoImpacts ==
    /\ txmap = <<>>
    /\ derived = FALSE
    /\ impacts = <<>>

InitPaging ==
    /\ Constructed
    /\ NoImpacts
    /\ history \in SeqsUpTo(TxIds, MaxHistory)
    /\ NoCall

NextPaging ==
    \/ \E a \in AddressArgs, s \in StartArgs, e \in EndArgs, pl \in PageLengths :
          lookupTransactions(a, s, e, pl)
    \/ PageResponse
    \/ PageError
    \/ BackendRevise

SpecPaging == InitPaging /\ [][NextPaging]_vars

\* A backend that answers every request with a result: no request fails and
\* the answer to the request in flight eventually arrives.
NextAnswered ==
    \/ \E a \in AddressArgs, s \in StartArgs, e \in EndArgs, pl \in PageLengths :
          lookupTransactions(a, s, e, pl)
    \/ PageResponse
    \/ BackendRevise

\* The arrival of the answer to the request in flight, as PageResponse
\* records it in responses. Only PageResponse changes responses, so a step
\* of NextAnswered is an Answer step exactly when it is a PageResponse step.
Answer ==
    /\ pc = "waiting"
    /\ LET w == NextWindow(previous, args.pageLength)
       IN responses' = Append(responses, BackendAnswer(history, w.from, w.to).totalCount)

SpecAnswered == InitPaging /\ [][NextAnswered]_vars /\ WF_responses(Answer)

(***************************************************************************)
(* Observations of transactions by the client: live notifications, pages   *)
(* of history and single-transaction lookups, in any interleaving.         *)
(***************************************************************************)
SetClient(c) ==
    /\ transactions' = c.transactions
    /\ built' = c.built
    /\ firstTx' = c.firstTx

Infos(matches) == [k \in 1..Len(matches) |-> matches[k].info]

\* What a notification carried on the wire: its transaction's id, its
\* height, absent in a mempool notification, and its rejected flag.
WireOf(r) ==
    [id |-> r.tx.hash, height |-> r.height, rejected |-> r.rejected,
     address |-> r.address]

\* The socket emits 'address/transaction' with r: the listener registered by
\* the constructor maps it through notificationToMatch.
Notify(r) ==
    /\ ListenerHeld("notifications")
    /\ LET n == notificationToMatch(Client, r)
       IN /\ SetClient(n.c)
          /\ lastObs' = IF n.ok
                        THEN [kind |-> "notification", ok |-> TRUE,
                              matches |-> <<n.match>>, infos |-> <<n.match.info>>,
                              wire |-> <<WireOf(r)>>]
                        ELSE [kind |-> "notification", ok |-> FALSE,
                              matches |-> <<>>, infos |-> <<>>,
                              wire |-> <<WireOf(r)>>]
    /\ late' = late \cup ({"notifications"} \cap disposed)
    /\ UNCHANGED <<pendingInsight, pagingVars, addresses, emitted, passed, lastCall,
                   callbacks, disposed, impactVars>>

\* A page of lookupTransactionsStream arrives with these items: the map
\* callback turns each into a match.
HistoryPage(items) ==
    /\ LET m == MapItems(Client, items)
       IN /\ SetClient(m.c)
          /\ lastObs' = [kind |-> "page", ok |-> TRUE,
                         matches |-> m.matches, infos |-> Infos(m.matches),
                         wire |-> [k \in 1..Len(items) |->
                                     [id |-> items[k].tx.hash,
                                      height |-> Some(items[k].height),
                                      rejected |-> FALSE]]]
    /\ UNCHANGED <<pendingInsight, pagingVars, socketVars, impactVars>>

\* lookupTransaction(hash): the fetch of tx/<hash> is sent.
lookupTransaction(hash) ==
    /\ hash \notin pendingInsight
    /\ pendingInsight' = pendingInsight \cup {hash}
    /\ UNCHANGED <<cacheVars, lastObs, pagingVars, socketVars, impactVars>>

\* The fetch answers 200 with the transaction at block height h.
InsightResponse(hash, h) ==
    /\ hash \in pendingInsight
    /\ pendingInsight' = pendingInsight \ {hash}
    /\ LET i == insightToInfo(Client, InsightTx(hash, h))
       IN /\ SetClient(i.c)
          /\ lastObs' = [kind |-> "info", ok |-> TRUE,
                         matches |-> <<>>, infos |-> <<i.info>>,
                         wire |-> <<[id |-> hash, height |-> Some(h),
                                     rejected |-> FALSE]>>]
    /\ UNCHANGED <<pagingVars, socketVars, impactVars>>

\* The fetch answers with another status: assertStatus throws and the
\* lookup is rejected.
InsightFailure(hash) ==
    /\ hash \in pendingInsight
    /\ pendingInsight' = pendingInsight \ {hash}
    /\ lastObs' = [kind |-> "info", ok |-> FALSE, matches |-> <<>>, infos |-> <<>>,
                   wire |-> <<>>]
    /\ UNCHANGED <<cacheVars, pagingVars, socketVars, impactVars>>

HistoryItems == {BcHistoryItem(id, BackendHeight(id)) : id \in TxIds}

\* The notifications the socket emits: a mempool notification on every kind
\* of address, and every combination of height and timestamp on a livenet
\* address; each rejected or not.
CacheNotifications ==
    {r \in BcNotifications :
        \/ r.height = None /\ r.timestamp = None
        \/ r.address.network = "livenet" /\ r.address.type = "pubkeyhash"}

InitCache ==
    /\ Constructed
    /\ NoImpacts
    /\ history = <<>>
    /\ NoCall

NextCache ==
    \/ \E r \in CacheNotifications : Notify(r)
    \/ \E items \in SeqsUpTo(HistoryItems, MaxPageItems) : HistoryPage(items)
    \/ \E hash \in TxIds : lookupTransaction(hash)
    \/ \E hash \in TxIds, h \in WireHeights : InsightResponse(hash, h)
    \/ \E hash \in TxIds : InsightFailure(hash)

SpecCache == InitCache /\ [][NextCache]_vars

(***************************************************************************)
(* Errors beside other operations: a lookupTransactions call whose request *)
(* may fail, a second lookupTransactionsStream call, live notifications    *)
(* with and without a recognized address, and a single-transaction lookup  *)
(* that may fail, all on one client.                                       *)
(***************************************************************************)
SecondArgs == [addresses |-> <<"a2">>, start |-> None, end |-> None, pageLength |-> 1]

\* The state the second call's generate step emits for the answer to its
\* request in flight (lines 343-359).
SecondState ==
    LET w == NextWindow(second.previous, SecondArgs.pageLength)
    IN PageState(BackendAnswer(history, w.from, w.to), w)

\* lookupTransactionsStream is called a second time: its stream is created
\* and its first request sent.
SecondLookup ==
    /\ second.pc = "idle"
    /\ second' = [pc |-> "waiting",
                  previous |-> initial(SecondArgs.pageLength),
                  requests |-> <<RequestFor(SecondArgs,
                                    NextWindow(initial(SecondArgs.pageLength),
                                               SecondArgs.pageLength))>>]
    /\ UNCHANGED <<history, revisions, args, pc, previous, requests, responses, pages,
                   acc, cacheVars, clientVars, socketVars, impactVars>>

\* The answer to the second call's request arrives: the call's own generator
\* state advances, and its next request is sent or its stream finishes.
SecondAnswer ==
    /\ second.pc = "waiting"
    /\ second' = [pc |-> StreamGenerateNext(SecondState),
                  previous |-> SecondState,
                  requests |-> IF Condition(SecondState)
                               THEN Append(second.requests,
                                           RequestFor(SecondArgs,
                                               NextWindow(SecondState,
                                                          SecondArgs.pageLength)))
                               ELSE second.requests]

\* The page of the second call is mapped through historyToMatch (line 135),
\* which interns its transactions in the shared cache.
SecondPageResponse ==
    /\ SecondAnswer
    /\ SetClient(MapItems(Client, SecondState.items).c)
    /\ UNCHANGED <<history, revisions, args, pc, previous, requests, responses, pages,
                   acc, clientVars, socketVars, impactVars>>

\* Mempool notifications of transaction 1, on a livenet address and on a
\* regtest address, which bitcoreToNetwork does not know.
ErrorNotifications ==
    {r \in BcNotifications :
        /\ r.tx.hash = 1
        /\ r.address.type = "pubkeyhash"
        /\ r.height = None /\ r.timestamp = None /\ ~r.rejected}

InitErrors ==
    /\ Constructed
    /\ NoImpacts
    /\ history = <<1, 2, 1>>
    /\ NoCall

NextErrors ==
    \/ lookupTransactions(<<"a1">>, None, None, 2)
    \/ PageResponse
    \/ PageError
    \/ SecondLookup
    \/ SecondPageResponse
    \/ \E r \in ErrorNotifications : Notify(r)
    \/ lookupTransaction(1)
    \/ InsightResponse(1, 7)
    \/ InsightFailure(1)

\* The backend answers every request of the second call with a result.
SpecErrors == InitErrors /\ [][NextErrors]_vars /\ WF_second(SecondAnswer)

(***************************************************************************)
(* Properties of the Transaction Cache, checked under SpecCache.           *)
(***************************************************************************)
\* C1: whatever the interleaving of notifications, history items and
\* single-transaction lookups, the Transaction of an id is built exactly once,
\* by the first observation of the id, and every observation returns the
\* object the first one returned.
C1_BuiltOnce ==
    /\ \A id \in TxIds :
          /\ built[id] <= 1
          /\ built[id] = 1 <=> id \in DOMAIN firstTx
    /\ lastObs.kind # "none" =>
          \A k \in 1..Len(lastObs.infos) :
              /\ lastObs.infos[k].id \in DOMAIN firstTx
              /\ lastObs.infos[k].tx = firstTx[lastObs.infos[k].id]

\* A notification returned a Transaction that a single-transaction lookup
\* had built (its input scripts are not neutered).
C1_Witness ==
    /\ lastObs.kind = "notification"
    /\ lastObs.ok
    /\ lastObs.infos[1].tx.ins[1].script # EMPTY_BUFFER
    /\ built[lastObs.infos[1].id] = 1

\* C2: the cache maps an id to one Transaction; an entry, once present, is
\* never replaced by another value and never removed.
C2_NoEviction ==
    [][\A id \in DOMAIN transactions :
          /\ id \in DOMAIN transactions'
          /\ transactions'[id] = transactions[id]]_vars

\* Every id is cached and a single-transaction lookup has just returned a
\* Transaction that a notification or a history item had built.
C2_Witness ==
    /\ DOMAIN transactions = TxIds
    /\ lastObs.kind = "info"
    /\ lastObs.ok
    /\ lastObs.infos[1].tx.ins[1].script = EMPTY_BUFFER

\* The height a TransactionInfo is to expose for the wire height h: h when
\* it is a positive number, absent otherwise.
Exposed(h) == IF h # None /\ h[1] > 0 THEN h ELSE None

\* C15: a notification that carries no height yields a TransactionInfo
\* without height and without timestamp, and no TransactionInfo the client
\* produces (notification, history page or single-transaction lookup) has the
\* height -1.
C15_NoSentinel ==
    /\ (lastObs.kind = "notification" /\ lastObs.ok /\ lastObs.wire[1].height = None) =>
          /\ lastObs.infos[1].height = None
          /\ lastObs.infos[1].timestamp = None
    /\ \A k \in 1..Len(lastObs.infos) : lastObs.infos[k].height # Some(-1)

\* A mempool notification of a transaction the cache already held was
\* converted.
C15_Witness ==
    /\ lastObs.kind = "notification"
    /\ lastObs.ok
    /\ lastObs.wire[1].height = None
    /\ lastObs.infos[1].height = None
    /\ DOMAIN transactions = TxIds

\* C16 as stated: an observation of an id returns the TransactionInfo the
\* previous observation of that id returned, unchanged.
C16_InfoCreatedOnce ==
    [][\A i \in 1..Len(lastObs.infos), j \in 1..Len(lastObs'.infos) :
          lastObs.infos[i].id = lastObs'.infos[j].id =>
              lastObs'.infos[j] = lastObs.infos[i]]_vars

\* C16 amended: it is the Transaction that is created once per id and
\* retrieved from the cache by every later observation; each observation
\* wraps it in a TransactionInfo carrying the id and the exposed height of
\* that observation's wire data.
C16_TransactionCachedInfoPerObservation ==
    \A k \in 1..Len(lastObs.infos) :
        LET info == lastObs.infos[k]
        IN /\ info.id = lastObs.wire[k].id
           /\ info.id \in DOMAIN transactions
           /\ info.tx = transactions[info.id]
           /\ info.tx = firstTx[info.id]
           /\ built[info.id] = 1
           /\ info.height = Exposed(lastObs.wire[k].height)
           /\ info.height = None => info.timestamp = None

\* A single-transaction lookup found the transaction unconfirmed and wrapped
\* the Transaction an earlier notification or history item had built.
C16_Witness ==
    /\ lastObs.kind = "info"
    /\ lastObs.ok
    /\ lastObs.infos[1].height = None
    /\ lastObs.infos[1].tx.ins[1].script = EMPTY_BUFFER

\* The address descriptor names a network and a type the adapter knows.
Recognized(a) ==
    /\ a.network \in {"livenet", "testnet"}
    /\ a.type \in {"pubkeyhash", "scripthash"}

\* C18: a notification with a recognized address yields a match with the
\* notification's rejected flag, its transaction and one address, whether the
\* flag is true or false; every match of a history page has rejected = false.
C18_RejectedCopied ==
    /\ (lastObs.kind = "notification" /\ Recognized(lastObs.wire[1].address)) =>
          /\ lastObs.ok
          /\ Len(lastObs.matches) = 1
          /\ lastObs.matches[1].rejected = lastObs.wire[1].rejected
          /\ lastObs.matches[1].info.id = lastObs.wire[1].id
          /\ Len(lastObs.matches[1].addresses) = 1
    /\ lastObs.kind = "page" =>
          /\ Len(lastObs.matches) = Len(lastObs.wire)
          /\ \A k \in 1..Len(lastObs.matches) : lastObs.matches[k].rejected = FALSE

\* A rejected notification of a confirmed transaction was converted.
C18_Witness ==
    /\ lastObs.kind = "notification"
    /\ lastObs.ok
    /\ lastObs.wire[1].rejected
    /\ lastObs.matches[1].rejected
    /\ lastObs.matches[1].info.height # None

\* After a notification whose address descriptor is not recognized: no match
\* was produced and the cache holds the notification's transaction.
C20_Failed ==
    (lastObs.kind = "notification" /\ ~Recognized(lastObs.wire[1].address)) =>
        /\ ~lastObs.ok
        /\ lastObs.matches = <<>>
        /\ lastObs.wire[1].id \in DOMAIN transactions
        /\ built[lastObs.wire[1].id] = 1

\* C20: a notification whose conversion fails on its address produces no
\* match but its transaction is interned all the same: when the cache did not
\* hold the id, the failed conversion adds it.
C20_FailedConversionInterns ==
    /\ []C20_Failed
    /\ [][(/\ lastObs'.kind = "notification"
           /\ ~lastObs'.ok
           /\ lastObs'.wire[1].id \notin DOMAIN transactions) =>
              /\ transactions' # transactions
              /\ DOMAIN transactions' = DOMAIN transactions \cup {lastObs'.wire[1].id}]_vars

\* The only observation so far was a notification that failed on a regtest
\* address, and the cache holds its transaction.
C20_Witness ==
    /\ lastObs.kind = "notification"
    /\ ~lastObs.ok
    /\ lastObs.wire[1].address.network = "regtest"
    /\ DOMAIN transactions = {lastObs.wire[1].id}
    /\ pendingInsight = {}

(***************************************************************************)
(* Subscriptions and feeds.                                                *)
(***************************************************************************)
\* Mutant of NotWatched: nothing is filtered out.
NotWatchedAll(addrs, watched) == addrs

\* addresses.filter((a) => !(this.addresses.has(a)))
NotWatched(addrs, watched) == SelectSeq(addrs, LAMBDA a : a \notin watched)

\* addresses.forEach((a) => this.addresses.add(a))
AddAll(watched, addrs) == watched \cup Range(addrs)

\* Socket.subscribe(event, ...values): the message emitted on the socket.
SocketSubscribe(event, values) ==
    [name |-> "subscribe", event |-> event, values |-> values]

subscribe(addrs) ==
    /\ Len(emitted) < MaxCalls
    /\ LET new == NotWatched(addrs, addresses)
       IN /\ addresses' = AddAll(addresses, new)
          /\ emitted' = Append(emitted, SocketSubscribe("address/transaction", <<new>>))
    /\ passed' = passed \cup Range(addrs)
    /\ lastCall' = [made |-> TRUE, addrs |-> addrs, before |-> addresses,
                    sent |-> Len(emitted)]
    /\ UNCHANGED <<callbacks, disposed, late,
                   cacheVars, clientVars, pagingVars, impactVars>>

\* The consumer of feed f unsubscribes: the disposer of observeSocket runs.
Dispose(f) ==
    /\ f \notin disposed
    /\ disposed' = disposed \cup {f}
    /\ callbacks' = observeSocketDispose(callbacks, f)
    /\ UNCHANGED <<addresses, emitted, passed, lastCall, late,
                   cacheVars, clientVars, pagingVars, impactVars>>

\* The socket emits 'error' or 'reconnect': every listener held for the event
\* is called.
SocketEmit(event) ==
    /\ late' = late \cup (Range(callbacks[event]) \cap disposed)
    /\ UNCHANGED <<addresses, emitted, passed, lastCall, callbacks, disposed,
                   cacheVars, clientVars, pagingVars, impactVars>>

\* Notifications emitted in the subscription model: unconfirmed sightings of
\* transaction 1 on a livenet address.
SocketNotifications ==
    {r \in BcNotifications :
        /\ r.tx.hash = 1
        /\ r.address.network = "livenet" /\ r.address.type = "pubkeyhash"
        /\ r.height = None /\ r.timestamp = None}

InitSocket ==
    /\ Constructed
    /\ NoImpacts
    /\ history = <<>>
    /\ NoCall

NextSocket ==
    \/ \E addrs \in SeqsUpTo(WalletAddresses, MaxSubscribeLen) : subscribe(addrs)
    \/ \E f \in Feeds : Dispose(f)
    \/ \E event \in {"error", "reconnect"} : SocketEmit(event)
    \/ \E r \in SocketNotifications : Notify(r)

SpecSocket == InitSocket /\ [][NextSocket]_vars

(***************************************************************************)
(* Properties of subscriptions and feeds, checked under SpecSocket.        *)
(***************************************************************************)
\* How many times address a occurs in the address list of message m.
Occurrences(m, a) == Cardinality({k \in 1..Len(m.values[1]) : m.values[1][k] = a})

RECURSIVE Forwarded(_, _)
Forwarded(msgs, a) ==
    IF msgs = <<>> THEN 0
    ELSE Occurrences(Head(msgs), a) + Forwarded(Tail(msgs), a)

\* C7: across any sequence of subscribe calls each address is forwarded to
\* the transport at most once, and a call whose addresses are all watched
\* already sends no subscribe message.
C7_ForwardedOnce ==
    /\ \A a \in WalletAddresses : Forwarded(emitted, a) <= 1
    /\ (lastCall.made /\ lastCall.addrs # <<>>
          /\ Range(lastCall.addrs) \subseteq lastCall.before) =>
          Len(emitted) = lastCall.sent

\* C8: the watched set is the union of all addresses passed to subscribe so
\* far, and the addresses the last call forwarded are exactly those of its
\* argument that were not watched before it.
C8_WatchedIsUnion ==
    /\ addresses = passed
    /\ lastCall.before \subseteq addresses
    /\ lastCall.made =>
          /\ emitted # <<>>
          /\ emitted[Len(emitted)].name = "subscribe"
          /\ emitted[Len(emitted)].event = "address/transaction"
          /\ Range(emitted[Len(emitted)].values[1]) = Range(lastCall.addrs) \ lastCall.before

\* A second call passed one watched and one new address.
C8_Witness ==
    /\ Len(emitted) = 2
    /\ lastCall.before # {}
    /\ Range(lastCall.addrs) \cap lastCall.before # {}
    /\ Range(lastCall.addrs) \ lastCall.before # {}

\* C9: once the consumer of a feed has unsubscribed, the socket no longer
\* holds the listener the feed registered, and no event is delivered to it.
C9_ListenerReleased ==
    /\ \A f \in disposed : ~ListenerHeld(f)
    /\ late = {}

(***************************************************************************)
(* Impact derivation: analyzeTransaction, compareByOldestAndType and       *)
(* deriveImpacts. A wallet TransactionInfo is [id, tx, height, timestamp,  *)
(* inputIds]; an output is [address, value] with an optional address.      *)
(***************************************************************************)
external == {"e1"}
internal == {"i1"}

OutE == [address |-> Some("e1"), value |-> 5000]
OutI == [address |-> Some("i1"), value |-> 3000]
OutX == [address |-> Some("x1"), value |-> 1800]
OutN == [address |-> None, value |-> 700]

\* Inputs by what they spend: output 0 of the funding transaction (owned),
\* its output 1 (not owned), or an output of a transaction not in the map.
InO == [prev |-> 1, index |-> 0]
InX == [prev |-> 1, index |-> 1]
InU == [prev |-> 0, index |-> 0]

WalletInfo(id, ins, outs, height) ==
    [id |-> id,
     tx |-> [ins |-> [k \in 1..Len(ins) |-> [index |-> ins[k].index]], outs |-> outs],
     height |-> height,
     timestamp |-> (IF height = None THEN None ELSE Some(1400 + height[1])),
     inputIds |-> [k \in 1..Len(ins) |-> ins[k].prev]]

\* The transaction that funds the wallet: id 1, confirmed at height 1.
Funding == WalletInfo(1, <<InU>>, <<OutE, OutX>>, Some(1))

\* The shapes of the other transactions of the map.
Shapes ==
    {[ins |-> <<InU>>, outs |-> <<OutE>>],
     [ins |-> <<InU>>, outs |-> <<OutI>>],
     [ins |-> <<InU>>, outs |-> <<OutE, OutX>>],
     [ins |-> <<InO>>, outs |-> <<OutI, OutX>>],
     [ins |-> <<InO>>, outs |-> <<OutI>>],
     [ins |-> <<InO>>, outs |-> <<OutE, OutI>>],
     [ins |-> <<InO, InU>>, outs |-> <<OutI>>],
     [ins |-> <<InO, InX>>, outs |-> <<OutE>>],
     [ins |-> <<InX>>, outs |-> <<OutX>>],
     [ins |-> <<InO>>, outs |-> <<OutX, OutN>>],
     [ins |-> <<>>, outs |-> <<OutE>>],
     [ins |-> <<InO, InO>>, outs |-> <<OutE, OutX>>]}

ImpactHeights == {None, Some(1), Some(2)}

IMPACT_ORDERING == <<"incoming", "internal", "outgoing">>

\* IMPACT_ORDERING.indexOf(type)
IndexOf(type) == CHOOSE k \in 1..Len(IMPACT_ORDERING) : IMPACT_ORDERING[k] = type

chainContainsAddress(chain, address) == address \in chain

\* transactions.getOutput(id, index): the output, or nothing when the map
\* has no transaction id or the transaction has no such output.
getOutput(map, id, index) ==
    LET found == {k \in 1..Len(map) : map[k].id = id}
    IN IF found = {} THEN None
       ELSE LET info == map[CHOOSE k \in found : TRUE]
            IN IF index < Len(info.tx.outs) THEN Some(info.tx.outs[index + 1]) ELSE None

\* Mutant of isDebit: every output outside the external chain is a target.
isDebitNotExternal(o) == ~(o.address # None /\ chainContainsAddress(external, o.address[1]))

isExternal(o) == o.address # None /\ chainContainsAddress(external, o.address[1])
isInternal(o) == o.address # None /\ chainContainsAddress(internal, o.address[1])
isCredit(o) == isExternal(o) \/ isInternal(o)
isDebit(o) == ~isCredit(o)

\* Mutant of DebitInputs: every input whose previous output resolves is
\* debited, whoever owns that output.
RECURSIVE DebitInputsAnyResolved(_, _, _)
DebitInputsAnyResolved(info, map, k) ==
    IF k > Len(info.tx.ins) THEN [n |-> 0, value |-> 0]
    ELSE LET o == getOutput(map, info.inputIds[k], info.tx.ins[k].index)
             rest == DebitInputsAnyResolved(info, map, k + 1)
         IN IF o # None
            THEN [n |-> rest.n + 1, value |-> rest.value - o[1].value]
            ELSE rest

\* The forEach over tx.ins: [n, value] after the inputs k.. are visited.
RECURSIVE DebitInputs(_, _, _)
DebitInputs(info, map, k) ==
    IF k > Len(info.tx.ins) THEN [n |-> 0, value |-> 0]
    ELSE LET o == getOutput(map, info.inputIds[k], info.tx.ins[k].index)
             rest == DebitInputs(info, map, k + 1)
         IN IF o # None /\ isCredit(o[1])
            THEN [n |-> rest.n + 1, value |-> rest.value - o[1].value]
            ELSE rest

\* Mutant of CreditOutputs: only outputs of the external chain are credited.
RECURSIVE CreditOutputsExternalOnly(_)
CreditOutputsExternalOnly(outs) ==
    IF outs = <<>> THEN [n |-> 0, value |-> 0]
    ELSE LET rest == CreditOutputsExternalOnly(Tail(outs))
         IN IF isExternal(Head(outs))
            THEN [n |-> rest.n + 1, value |-> rest.value + Head(outs).value]
            ELSE rest

\* The forEach over tx.outs.
RECURSIVE CreditOutputs(_)
CreditOutputs(outs) ==
    IF outs = <<>> THEN [n |-> 0, value |-> 0]
    ELSE LET rest == CreditOutputs(Tail(outs))
         IN IF isCredit(Head(outs))
            THEN [n |-> rest.n + 1, value |-> rest.value + Head(outs).value]
            ELSE rest

analyzeTransaction(info, map) ==
    LET debit == DebitInputs(info, map, 1)
        credit == CreditOutputs(info.tx.outs)
        nDebit == debit.n
        nCredit == credit.n
        value == debit.value + credit.value
        type == IF nDebit = Len(info.tx.ins) /\ nCredit = Len(info.tx.outs) THEN "internal"
                ELSE IF value > 0 THEN "incoming"
                ELSE "outgoing"
        targets == CASE type = "internal" -> <<>>
                     [] type = "incoming" ->
                            IF SelectSeq(info.tx.outs, isExternal) # <<>>
                            THEN SelectSeq(info.tx.outs, isExternal)
                            ELSE SelectSeq(info.tx.outs, isInternal)
                     [] OTHER -> SelectSeq(info.tx.outs, isDebit)
    IN [id |-> info.id, height |-> info.height, timestamp |-> info.timestamp,
        balance |-> 0, type |-> type, targets |-> targets, value |-> value]

\* Mutant of compareByOldestAndType: an absent height counts as 0.
compareAbsentAsZero(a, b) ==
    LET byType == IndexOf(a.type) - IndexOf(b.type)
        ah == IF a.height = None THEN 0 ELSE a.height[1]
        bh == IF b.height = None THEN 0 ELSE b.height[1]
    IN IF ah # bh THEN ah - bh ELSE byType

\* Sign of the comparator's result. An absent height is Infinity;
\* Infinity - Infinity is NaN, which falls through to the types.
compareByOldestAndType(a, b) ==
    LET byType == IndexOf(a.type) - IndexOf(b.type)
    IN CASE a.height = None /\ b.height = None -> byType
         [] a.height = None -> 1
         [] b.height = None -> -1
         [] a.height[1] # b.height[1] -> a.height[1] - b.height[1]
         [] OTHER -> byType

\* The orders impacts.sort(compareByOldestAndType) may leave: the order of
\* elements that compare equal is the engine's choice.
Orders(n) ==
    {p \in [1..n -> 1..n] : \A i, j \in 1..n : i # j => p[i] # p[j]}

SortedOrders(s) ==
    {p \in Orders(Len(s)) :
        \A i, j \in 1..Len(s) : i < j => compareByOldestAndType(s[p[i]], s[p[j]]) <= 0}

\* Mutant of FoldBalances: the previous balance is not carried over.
RECURSIVE FoldBalancesNoCarry(_, _)
FoldBalancesNoCarry(s, prev) ==
    IF s = <<>> THEN <<>>
    ELSE LET info == [Head(s) EXCEPT !.balance = Head(s).value]
         IN <<info>> \o FoldBalancesNoCarry(Tail(s), Some(info))

\* impacts.reduce(...): prev is the entry before s, nothing at the start.
RECURSIVE FoldBalances(_, _)
FoldBalances(s, prev) ==
    IF s = <<>> THEN <<>>
    ELSE LET info == [Head(s) EXCEPT !.balance = IF prev # None
                                                   THEN prev[1].balance + Head(s).value
                                                   ELSE Head(s).value]
         IN <<info>> \o FoldBalances(Tail(s), Some(info))

\* deriveImpacts(transactions, external, internal), with the sort leaving
\* the order p.
deriveImpacts(map, p) ==
    LET analyzed == [k \in 1..Len(map) |-> analyzeTransaction(map[k], map)]
        sorted == [k \in 1..Len(map) |-> analyzed[p[k]]]
    IN Reverse(FoldBalances(sorted, None))

\* The wallet learns of another transaction.
AddTransaction(shape, height) ==
    /\ Len(txmap) < MaxTxs + 1
    /\ txmap' = Append(txmap, WalletInfo(Len(txmap) + 1, shape.ins, shape.outs, height))
    /\ derived' = FALSE
    /\ impacts' = <<>>
    /\ UNCHANGED <<cacheVars, clientVars, pagingVars, socketVars>>

\* deriveImpacts is called on the map.
Derive ==
    /\ ~derived
    /\ \E p \in SortedOrders([k \in 1..Len(txmap) |-> analyzeTransaction(txmap[k], txmap)]) :
          impacts' = deriveImpacts(txmap, p)
    /\ derived' = TRUE
    /\ UNCHANGED <<txmap, cacheVars, clientVars, pagingVars, socketVars>>

InitImpacts ==
    /\ Constructed
    /\ history = <<>>
    /\ NoCall
    /\ txmap = <<Funding>>
    /\ derived = FALSE
    /\ impacts = <<>>

NextImpacts ==
    \/ \E shape \in Shapes, height \in ImpactHeights : AddTransaction(shape, height)
    \/ Derive

SpecImpacts == InitImpacts /\ [][NextImpacts]_vars

(***************************************************************************)
(* Properties of the impact derivation, checked under SpecImpacts.         *)
(***************************************************************************)
RECURSIVE SumValues(_)
SumValues(s) == IF s = <<>> THEN 0 ELSE Head(s).value + SumValues(Tail(s))

\* The ledger in chronological order, oldest first.
Chronological == Reverse(impacts)

\* C10: with the impacts in chronological order, the balance of the i-th is
\* the sum of the values of the first i; the returned ledger is that order
\* reversed, so its first entry's balance is the sum of the values of all the
\* transactions and its last entry's balance is its own value.
C10_BalanceFold ==
    derived =>
        /\ Len(impacts) = Len(txmap)
        /\ \A i \in 1..Len(impacts) :
              Chronological[i].balance = SumValues(SubSeq(Chronological, 1, i))
        /\ \A i \in 1..(Len(impacts) - 1) :
              compareByOldestAndType(Chronological[i], Chronological[i + 1]) <= 0
        /\ impacts[1].balance =
              SumValues([k \in 1..Len(txmap) |-> analyzeTransaction(txmap[k], txmap)])
        /\ impacts[Len(impacts)].balance = impacts[Len(impacts)].value

\* A ledger of three entries whose balance falls and rises.
C10_Witness ==
    /\ derived
    /\ Len(impacts) = 3
    /\ impacts[1].balance # impacts[2].balance
    /\ impacts[2].balance < impacts[3].balance
    /\ impacts[1].value > 0

\* The impact deriveImpacts returned for transaction id.
ImpactOf(id) == impacts[CHOOSE k \in 1..Len(impacts) : impacts[k].id = id]

\* C11: in chronological order a transaction of lower height precedes one of
\* higher height whatever their types, a transaction without height follows
\* every transaction that has one, and transactions of equal height (or both
\* without height) are ordered incoming, internal, outgoing.
C11_ChronologicalOrder ==
    derived =>
        \A i, j \in 1..Len(Chronological) :
            LET a == Chronological[i]
                b == Chronological[j]
            IN /\ (a.height # None /\ b.height # None /\ a.height[1] < b.height[1]) => i < j
               /\ (a.height # None /\ b.height = None) => i < j
               /\ (a.height = b.height /\ IndexOf(a.type) < IndexOf(b.type)) => i < j

\* An outgoing transaction of height 1 sorted after the incoming transaction
\* of the same height and before an unconfirmed incoming one.
C11_Witness ==
    /\ derived
    /\ Len(impacts) = 3
    /\ Chronological[1].type = "incoming" /\ Chronological[1].height = Some(1)
    /\ Chronological[2].type = "outgoing" /\ Chronological[2].height = Some(1)
    /\ Chronological[3].type = "incoming" /\ Chronological[3].height = None

\* The address of output o is owned by the external or the internal chain.
Owned(o) == o.address # None /\ o.address[1] \in (external \cup internal)

\* The previous outputs the inputs of info spend that resolve in the map, one
\* per input, in input order.
SpentOutputs(info, map) ==
    LET resolved == SelectSeq([k \in 1..Len(info.tx.ins) |->
                                  getOutput(map, info.inputIds[k], info.tx.ins[k].index)],
                              LAMBDA o : o # None)
    IN [k \in 1..Len(resolved) |-> resolved[k][1]]

\* Every input of info spends a resolved output.
AllResolved(info, map) == Len(SpentOutputs(info, map)) = Len(info.tx.ins)

\* C12: a transaction is classified internal, with no targets, exactly when
\* every input spends a resolved output owned by one of the chains and every
\* output pays an address owned by one of the chains.
C12_InternalIffAllOwned ==
    derived =>
        \A id \in 1..Len(txmap) :
            LET info == txmap[id]
                spent == SpentOutputs(info, txmap)
            IN (ImpactOf(id).type = "internal" /\ ImpactOf(id).targets = <<>>)
                <=> (/\ AllResolved(info, txmap)
                     /\ \A k \in 1..Len(spent) : Owned(spent[k])
                     /\ \A k \in 1..Len(info.tx.outs) : Owned(info.tx.outs[k]))

\* The ledger holds an internal transaction with an input, and a transaction
\* that is not internal only because one of its two inputs spends an output
\* the wallet does not own.
C12_Witness ==
    /\ derived
    /\ \E id \in 1..Len(txmap) :
          ImpactOf(id).type = "internal" /\ txmap[id].tx.ins # <<>>
    /\ \E id \in 1..Len(txmap) :
          /\ ImpactOf(id).type # "internal"
          /\ Len(txmap[id].tx.ins) = 2
          /\ AllResolved(txmap[id], txmap)
          /\ \A k \in 1..Len(txmap[id].tx.outs) : Owned(txmap[id].tx.outs[k])

\* C13: the value of an impact is the sum of the values of the transaction's
\* owned outputs minus the sum of the values of the owned previous outputs its
\* inputs spend.
C13_ValueIsCreditMinusDebit ==
    derived =>
        \A id \in 1..Len(txmap) :
            ImpactOf(id).value =
                SumValues(SelectSeq(txmap[id].tx.outs, Owned))
                - SumValues(SelectSeq(SpentOutputs(txmap[id], txmap), Owned))

\* A transaction with an owned and an unowned input and an owned output, and
\* one crediting the internal chain only.
C13_Witness ==
    /\ derived
    /\ \E id \in 1..Len(txmap) :
          /\ Len(SpentOutputs(txmap[id], txmap)) = 2
          /\ Len(SelectSeq(SpentOutputs(txmap[id], txmap), Owned)) = 1
          /\ ImpactOf(id).value = 0
    /\ \E id \in 1..Len(txmap) :
          /\ ImpactOf(id).value = 3000
          /\ txmap[id].tx.outs = <<OutI>>

\* The transaction of the end-to-end scenario: one input spending the owned
\* 5000 output, outputs 3000 (owned) and 1800 (unowned).
IsScenario(info) ==
    /\ info.inputIds = <<1>>
    /\ info.tx.ins = <<[index |-> 0]>>
    /\ info.tx.outs = <<OutI, OutX>>

\* C14: a transaction that is not internal and whose value is <= 0 is
\* outgoing and its targets are exactly its outputs owned by neither chain,
\* in output order; the scenario transaction is outgoing with value -2000 and
\* the 1800 output as its only target.
C14_OutgoingTargets ==
    derived =>
        \A id \in 1..Len(txmap) :
            /\ (ImpactOf(id).type # "internal" /\ ImpactOf(id).value <= 0) =>
                  /\ ImpactOf(id).type = "outgoing"
                  /\ ImpactOf(id).targets =
                        SelectSeq(txmap[id].tx.outs, LAMBDA o : ~Owned(o))
            /\ IsScenario(txmap[id]) =>
                  /\ ImpactOf(id).type = "outgoing"
                  /\ ImpactOf(id).value = -2000
                  /\ ImpactOf(id).targets = <<OutX>>

\* The ledger holds the scenario transaction and an outgoing transaction of
\* value 0.
C14_Witness ==
    /\ derived
    /\ \E id \in 1..Len(txmap) : IsScenario(txmap[id]) /\ ImpactOf(id).value = -2000
    /\ \E id \in 1..Len(txmap) :
          ImpactOf(id).type = "outgoing" /\ ImpactOf(id).value = 0

(***************************************************************************)
(* Properties of the pagination engine, checked under SpecPaging.          *)
(***************************************************************************)
Ceil(n, d) == (n + d - 1) \div d
Max(a, b) == IF a > b THEN a ELSE b

\* Every answer so far reported the total t.
ConstantTotal(t) == \A k \in 1..Len(responses) : responses[k] = t

\* The windows of the requests sent so far.
Window(k) == [from |-> requests[k].params[2].from, to |-> requests[k].params[2].to]

\* C3 as stated: for any totalCount >= 0 reported constantly and any
\* pageLength >= 1, a finished call has emitted exactly
\* ceil(totalCount / pageLength) pages.
C3_CeilPages ==
    \A t \in 0..(MaxHistory + 1) :
        (pc = "done" /\ ConstantTotal(t)) =>
            Len(pages) = Ceil(t, args.pageLength)

\* C3 amended: with a constantly reported totalCount t, a finished call has
\* emitted exactly max(1, ceil(t / pageLength)) pages (one page, empty, when
\* t = 0), and a call still running has emitted fewer.
C3_CeilPagesAtLeastOne ==
    \A t \in 0..(MaxHistory + 1) :
        /\ (pc = "done" /\ ConstantTotal(t)) =>
              Len(pages) = Max(1, Ceil(t, args.pageLength))
        /\ (pc = "waiting" /\ ConstantTotal(t) /\ responses # <<>>) =>
              Len(pages) < Max(1, Ceil(t, args.pageLength))

C3_Witness ==
    /\ pc = "done"
    /\ ConstantTotal(MaxHistory)
    /\ args.pageLength = 2
    /\ Len(pages) = Ceil(MaxHistory, 2)
    /\ Len(pages) >= 2

\* The TransactionMatch a history item of transaction id becomes.
ExpectedMatch(id) ==
    [info |-> TransactionInfo(transactions[id], id,
                 IF BackendHeight(id) > 0 THEN Some(BackendHeight(id)) ELSE None,
                 IF BackendHeight(id) > 0 THEN Some(1400 + BackendHeight(id)) ELSE None),
     addresses |-> <<"a1">>, rejected |-> FALSE]

\* C4: against a fixed history answered faithfully, lookupTransactions
\* resolves to the matches of the history's items in history order, whatever
\* the pageLength: same length, same order.
C4_ConcatInOrder ==
    (pc = "done" /\ revisions = 0) =>
        /\ Len(acc) = Len(history)
        /\ \A k \in 1..Len(history) : acc[k] = ExpectedMatch(history[k])
        /\ \A k \in 1..Len(acc), p \in 1..Len(pages) :
              (pages[p].from < k /\ k <= pages[p].to) =>
                  acc[k].info.id = pages[p].items[k - pages[p].from].tx.hash

C4_Witness ==
    /\ pc = "done"
    /\ revisions = 0
    /\ Len(pages) >= 2
    /\ Len(acc) = MaxHistory
    /\ acc[1].info.id # acc[Len(acc)].info.id

LastPage == pages[Len(pages)]

\* Every emitted page carries the total of its own answer; no page before
\* the last satisfies to >= totalCount; once the last emitted page does, the
\* call is finished and no request is outstanding; while it does not, the
\* next request is outstanding.
C5_Pages ==
    /\ Len(pages) = Len(responses)
    /\ \A k \in 1..Len(pages) : pages[k].totalCount = responses[k]
    /\ \A k \in 1..(Len(pages) - 1) : pages[k].to < pages[k].totalCount
    /\ (pages # <<>> /\ LastPage.to >= LastPage.totalCount) =>
          (pc = "done" /\ Len(requests) = Len(pages))
    /\ (pages # <<>> /\ LastPage.to < LastPage.totalCount) =>
          (pc \in {"waiting", "failed"} /\ Len(requests) = Len(pages) + 1)
    /\ pc = "done" => (pages # <<>> /\ LastPage.to >= LastPage.totalCount)

\* C5: pagination stops exactly after the first page whose to is >= the
\* totalCount of its own answer (C5_Pages), and once finished the call stays
\* finished and sends no further request.
C5_StopOnLatestTotal ==
    /\ []C5_Pages
    /\ [][pc = "done" => (pc' = "done" /\ requests' = requests)]_vars

\* A page that would have been the last by the previous total, whose own
\* answer revised the total upward, and a further request was sent.
C5_Witness ==
    \E k \in 2..Len(pages) :
        /\ pages[k].to = pages[k - 1].totalCount
        /\ pages[k].totalCount > pages[k].to
        /\ Len(requests) > k

\* C6: the first window is [0, pageLength); each later window is
\* [previous.to, min(previous.to + pageLength, previous totalCount)), so
\* windows are contiguous, non-empty and disjoint; every request carries the
\* call's addresses, start and end, and queryMempool = true.
C6_Windows ==
    /\ requests # <<>> => Window(1) = [from |-> 0, to |-> args.pageLength]
    /\ \A k \in 2..Len(requests) :
          /\ Window(k).from = pages[k - 1].to
          /\ Window(k).to = Min(pages[k - 1].to + args.pageLength,
                                pages[k - 1].totalCount)
          /\ Window(k).from = Window(k - 1).to
          /\ Window(k).from < Window(k).to
    /\ \A k \in 1..Len(pages) :
          pages[k].from = Window(k).from /\ pages[k].to = Window(k).to
    /\ \A k \in 1..Len(requests) :
          /\ requests[k].method = "getAddressHistory"
          /\ requests[k].params[1] = args.addresses
          /\ requests[k].params[2].start = args.start
          /\ requests[k].params[2].end = args.end
          /\ requests[k].params[2].queryMempool = TRUE

C6_Witness ==
    /\ Len(requests) >= 2
    /\ Window(2).to < Window(2).from + args.pageLength
    /\ args.start # None

\* Each page after the first has from < to, and to strictly increases from
\* page to page.
C19_Progress ==
    \A k \in 2..Len(pages) :
        /\ pages[k].from < pages[k].to
        /\ pages[k - 1].to < pages[k].to

\* C19: against a backend that answers every request and whose totalCount
\* stays within MaxHistory, a call that was started eventually ends, and its
\* pages advance: from < to after the first page, to strictly increasing.
C19_Terminates ==
    /\ []C19_Progress
    /\ (pc = "waiting") ~> (pc = "done")

\* A call ended after three pages although the backend's total changed
\* while it ran.
C19_Witness ==
    /\ pc = "done"
    /\ Len(pages) = 3
    /\ revisions = 1
    /\ pages[1].to < pages[2].to /\ pages[2].to < pages[3].to

(***************************************************************************)
(* Properties of error propagation, checked under SpecErrors.              *)
(***************************************************************************)
\* The step is the failure of an operation: a notification whose address is
\* not recognized, a rejected page request of the first call, or a failed
\* single-transaction lookup.
NotificationFails ==
    /\ lastObs' # lastObs
    /\ lastObs'.kind = "notification"
    /\ ~lastObs'.ok
PageRequestFails == pc = "waiting" /\ pc' = "failed"
LookupFails ==
    /\ pendingInsight' # pendingInsight
    /\ lastObs'.kind = "info"
    /\ ~lastObs'.ok

\* A failure leaves the socket's listeners, the second call and, unless it is
\* their own, the first call and the lookups in flight as they were.
C17_Frame ==
    /\ (NotificationFails \/ PageRequestFails \/ LookupFails) =>
          /\ callbacks' = callbacks
          /\ second' = second
    /\ (NotificationFails \/ LookupFails) =>
          /\ pc' = pc
          /\ requests' = requests
          /\ pages' = pages
    /\ (NotificationFails \/ PageRequestFails) => pendingInsight' = pendingInsight

\* The notification delivered right after a failed one, or after the first
\* call has failed, yields its match when its address is recognized.
C17_StillDelivers ==
    (/\ lastObs' # lastObs
     /\ lastObs'.kind = "notification"
     /\ Recognized(lastObs'.wire[1].address)
     /\ \/ (lastObs.kind \in {"notification", "info"} /\ ~lastObs.ok)
        \/ pc = "failed") =>
        /\ lastObs'.ok
        /\ Len(lastObs'.matches) = 1

====
